---- MODULE Spec2Model ----
(***************************************************************************)
(* A model of the self-healing core of AthenAI                             *)
(* (src/api/services/self_healing.py): the strategy catalog, the           *)
(* selector's score map, the recovery executor and the heal / analyze      *)
(* orchestration of SelfHealingService, run by concurrent request threads  *)
(* against the one module-level service instance                           *)
(* (src/api/resources/self_healing.py:12).                                 *)
(***************************************************************************)
EXTENDS Integers, Sequences, FiniteSets, TLC

VARIABLES
    scores,          \* StrategySelector._scores: name -> [success, attempts]
    baselines,       \* AnomalyDetector._baselines: metric -> <<mu, sd>>
    db,              \* the HealingAttempt nodes created in Neo4j, in creation order
    dockerAvailable, \* the module flag _docker_available
    pc,              \* per request thread: the position inside heal / analyze
    inv,             \* per request thread: the locals of the running invocation
    started,         \* number of invocations started so far
    mode,            \* "seq": one request at a time; "conc": concurrent requests
    recorded,        \* completed record_outcome calls: name -> [calls, succ]
    bestResult,      \* result of the last direct selector.best call
    called,          \* the last direct call of the detector or the diagnoser
    stats            \* what a caller of learning_stats holds

vars == <<scores, baselines, db, dockerAvailable, pc, inv, started, mode, recorded, bestResult, called, stats>>

(***************************************************************************)
(* Bounds of the model.                                                    *)
(***************************************************************************)
MaxSeqOps == 3     \* invocations started when requests run one at a time
MaxConcOps == 3    \* invocations started when requests run concurrently
MaxAttempts == 4   \* direct record_outcome calls per name

Threads == {"t1", "t2"}

\* Python's None, and truthiness of an Optional[str]
None == "<None>"
Truthy(x) == x \notin {None, ""}

(***************************************************************************)
(* StrategyLibrary                                                         *)
(***************************************************************************)
\* a catalog whose list() puts scale_service before restart_unhealthy and
\* names rebalance_load twice
StrategyListShuffled ==
    << [name |-> "scale_service", description |-> "Increase service replicas to handle load",
        safety_level |-> "medium", cost |-> 40,
        actions |-> << [type |-> "scale", target |-> "service", delta |-> 1] >>],
       [name |-> "restart_unhealthy", description |-> "Restart unhealthy containers/services",
        safety_level |-> "high", cost |-> 20,
        actions |-> << [type |-> "docker.restart", target |-> "service"] >>],
       [name |-> "rebalance_load", description |-> "Rebalance work across nodes",
        safety_level |-> "high", cost |-> 30,
        actions |-> << [type |-> "rebalance"] >>],
       [name |-> "rebalance_load", description |-> "Apply rate limits to reduce pressure",
        safety_level |-> "low", cost |-> 10,
        actions |-> << [type |-> "rate_limit", amount |-> 80] >>],
       [name |-> "purge_stuck", description |-> "Remove stuck items from queues",
        safety_level |-> "medium", cost |-> 20,
        actions |-> << [type |-> "queue.purge"] >>],
       [name |-> "recycle_container", description |-> "Stop and start a container to clear state",
        safety_level |-> "medium", cost |-> 30,
        actions |-> << [type |-> "docker.recycle"] >>] >>

StrategyList ==
    << [name |-> "restart_unhealthy", description |-> "Restart unhealthy containers/services",
        safety_level |-> "high", cost |-> 20,
        actions |-> << [type |-> "docker.restart", target |-> "service"] >>],
       [name |-> "scale_service", description |-> "Increase service replicas to handle load",
        safety_level |-> "medium", cost |-> 40,
        actions |-> << [type |-> "scale", target |-> "service", delta |-> 1] >>],
       [name |-> "rebalance_load", description |-> "Rebalance work across nodes",
        safety_level |-> "high", cost |-> 30,
        actions |-> << [type |-> "rebalance"] >>],
       [name |-> "throttle_traffic", description |-> "Apply rate limits to reduce pressure",
        safety_level |-> "low", cost |-> 10,
        actions |-> << [type |-> "rate_limit", amount |-> 80] >>],
       [name |-> "purge_stuck", description |-> "Remove stuck items from queues",
        safety_level |-> "medium", cost |-> 20,
        actions |-> << [type |-> "queue.purge"] >>],
       [name |-> "recycle_container", description |-> "Stop and start a container to clear state",
        safety_level |-> "medium", cost |-> 30,
        actions |-> << [type |-> "docker.recycle"] >>] >>

\* StrategyLibrary.get finds an entry (its result is not None)
LibHas(name) == \E i \in 1..Len(StrategyList) : StrategyList[i].name = name

\* StrategyLibrary.get: the first entry of list() with that name
LibGet(name) ==
    LET hits == {i \in 1..Len(StrategyList) : StrategyList[i].name = name}
    IN  StrategyList[CHOOSE i \in hits : \A j \in hits : i <= j]

(***************************************************************************)
(* StrategySelector                                                        *)
(***************************************************************************)
\* a setdefault that stores the zero record also over an existing one
SetDefaultReset(sc, name) ==
    [k \in DOMAIN sc \cup {name} |->
        IF k = name THEN [success |-> 0, attempts |-> 0] ELSE sc[k]]

\* dict.setdefault(name, {"success": 0.0, "attempts": 0.0})
SetDefault(sc, name) ==
    IF name \in DOMAIN sc THEN sc ELSE sc @@ (name :> [success |-> 0, attempts |-> 0])

\* record_outcome run to completion by one caller, nothing interleaved
RecordOutcome(sc, name, success) ==
    LET s1 == SetDefault(sc, name)
        s2 == [s1 EXCEPT ![name].attempts = @ + 1]
    IN  IF success THEN [s2 EXCEPT ![name].success = @ + 1] ELSE s2

\* the inner score(name) of best, as the fraction <<numerator, denominator>>
Score(sc, name) ==
    IF name \notin DOMAIN sc \/ sc[name].attempts = 0
    THEN <<1, 2>>
    ELSE <<sc[name].success, IF sc[name].attempts > 1 THEN sc[name].attempts ELSE 1>>

\* a < b for fractions with positive denominators
FracLess(a, b) == a[1] * b[2] < b[1] * a[2]

\* max that lets a later candidate of equal score replace the current one
RECURSIVE MaxByScoreLast(_, _, _, _)
MaxByScoreLast(sc, candidates, i, cur) ==
    IF i > Len(candidates) THEN cur
    ELSE MaxByScoreLast(sc, candidates, i + 1,
                        IF FracLess(Score(sc, candidates[i]), Score(sc, cur))
                        THEN cur ELSE candidates[i])

\* max(candidates, key=score): a later candidate replaces the current one only
\* when its key is strictly greater
RECURSIVE MaxByScore(_, _, _, _)
MaxByScore(sc, candidates, i, cur) ==
    IF i > Len(candidates) THEN cur
    ELSE MaxByScore(sc, candidates, i + 1,
                    IF FracLess(Score(sc, cur), Score(sc, candidates[i]))
                    THEN candidates[i] ELSE cur)

\* StrategySelector.best
Best(sc, candidates) ==
    IF candidates = <<>> THEN None
    ELSE MaxByScore(sc, candidates, 2, candidates[1])

(***************************************************************************)
(* RecoveryExecutor                                                        *)
(***************************************************************************)
\* typ.startswith("docker.") over the action types of the catalog
IsDockerType(typ) == typ \in {"docker.restart", "docker.recycle"}

\* the container API calls the inner loop makes for one container id
CallsFor(typ, c) ==
    <<[op |-> "get", id |-> c]>> \o
    (IF typ = "docker.restart" THEN <<[op |-> "restart", id |-> c]>>
     ELSE IF typ = "docker.recycle"
          THEN <<[op |-> "stop", id |-> c], [op |-> "start", id |-> c]>>
          ELSE <<>>)

RECURSIVE LoopCalls(_, _, _)
LoopCalls(typ, containers, i) ==
    IF i > Len(containers) THEN <<>>
    ELSE CallsFor(typ, containers[i]) \o LoopCalls(typ, containers, i + 1)

\* every call of the try block of one docker action, when none raises
TryCalls(typ, containers) ==
    <<[op |-> "from_env", id |-> None]>> \o LoopCalls(typ, containers, 1)

\* an iteration whose failing call is skipped and whose loop over the
\* containers goes on
RunActionPerContainer(act, containers, avail, fail) ==
    IF IsDockerType(act.type) /\ avail
    THEN LET ops == TryCalls(act.type, containers)
         IN  IF fail \in 1..Len(ops)
             THEN [result |-> [type |-> act.type, error |-> "raised"],
                   calls  |-> ops, raised |-> TRUE]
             ELSE [result |-> [type |-> act.type, targets |-> containers],
                   calls  |-> ops, raised |-> FALSE]
    ELSE [result |-> [type |-> act.type, status |-> "ok"], calls |-> <<>>,
          raised |-> FALSE]

\* one iteration of "for act in strat.actions"; fail is the number of the call
\* of the try block that raises (0, or past the last call: none raises)
RunAction(act, containers, avail, fail) ==
    IF IsDockerType(act.type) /\ avail
    THEN LET ops == TryCalls(act.type, containers)
         IN  IF fail \in 1..Len(ops)
             THEN [result |-> [type |-> act.type, error |-> "raised"],
                   calls  |-> SubSeq(ops, 1, fail), raised |-> TRUE]
             ELSE [result |-> [type |-> act.type, targets |-> containers],
                   calls  |-> ops, raised |-> FALSE]
    ELSE [result |-> [type |-> act.type, status |-> "ok"], calls |-> <<>>,
          raised |-> FALSE]

\* the loop over the actions with the try around the whole loop: the first
\* raising action ends it
RECURSIVE RunActionsAbort(_, _, _, _, _)
RunActionsAbort(actions, i, containers, avail, fails) ==
    IF i > Len(actions) THEN [results |-> <<>>, calls |-> <<>>, raised |-> {}]
    ELSE LET one  == RunAction(actions[i], containers, avail, fails[i])
             rest == RunActionsAbort(actions, i + 1, containers, avail, fails)
         IN  IF one.raised
             THEN [results |-> <<>>, calls |-> one.calls, raised |-> {i}]
             ELSE [results |-> <<one.result>> \o rest.results,
                   calls   |-> one.calls \o rest.calls,
                   raised  |-> rest.raised]

RECURSIVE RunActions(_, _, _, _, _)
RunActions(actions, i, containers, avail, fails) ==
    IF i > Len(actions) THEN [results |-> <<>>, calls |-> <<>>, raised |-> {}]
    ELSE LET one  == RunAction(actions[i], containers, avail, fails[i])
             rest == RunActions(actions, i + 1, containers, avail, fails)
         IN  [results |-> <<one.result>> \o rest.results,
              calls   |-> one.calls \o rest.calls,
              raised  |-> (IF one.raised THEN {i} ELSE {}) \cup rest.raised]

\* execute that builds the dry-run plan only after running the actions
ExecuteThenPlan(name, containers, dry_run, avail, fails) ==
    IF ~LibHas(name)
    THEN [outcome |-> [applied |-> FALSE, reason |-> "unknown_strategy"],
          calls |-> <<>>, raised |-> {}]
    ELSE LET strat == LibGet(name)
             plan  == [strategy |-> strat.name, actions |-> strat.actions,
                       dry_run |-> dry_run]
             run   == RunActions(strat.actions, 1, containers, avail, fails)
         IN  IF dry_run
             THEN [outcome |-> [applied |-> FALSE, plan |-> plan, dry_run |-> TRUE],
                   calls |-> run.calls, raised |-> run.raised]
             ELSE [outcome |-> [applied |-> TRUE, strategy |-> strat.name,
                                actions |-> run.results],
                   calls |-> run.calls, raised |-> run.raised]

\* RecoveryExecutor.execute: the outcome it returns, the container API calls it
\* made and the actions (by position) in whose try block a call raised
Execute(name, containers, dry_run, avail, fails) ==
    IF ~LibHas(name)
    THEN [outcome |-> [applied |-> FALSE, reason |-> "unknown_strategy"],
          calls |-> <<>>, raised |-> {}]
    ELSE LET strat == LibGet(name)
             plan  == [strategy |-> strat.name, actions |-> strat.actions,
                       dry_run |-> dry_run]
         IN  IF dry_run
             THEN [outcome |-> [applied |-> FALSE, plan |-> plan, dry_run |-> TRUE],
                   calls |-> <<>>, raised |-> {}]
             ELSE LET run == RunActions(strat.actions, 1, containers, avail, fails)
                  IN  [outcome |-> [applied |-> TRUE, strategy |-> strat.name,
                                    actions |-> run.results],
                       calls |-> run.calls, raised |-> run.raised]

(***************************************************************************)
(* AnomalyDetector.  Readings, means and deviations are fixed-point        *)
(* integers counting hundredths of a unit (0.3 is 30, 95 is 9500); a       *)
(* z-score is kept as the exact fraction <<v - mu, sd>>.                   *)
(***************************************************************************)
\* abs(v) * 0.05 is abs(v) / 20
Twentieths == 20

Abs(x) == IF x < 0 THEN -x ELSE x

RECURSIVE SumSeq(_, _)
SumSeq(xs, i) == IF i > Len(xs) THEN 0 ELSE xs[i] + SumSeq(xs, i + 1)

\* statistics.fmean
FMean(values) == SumSeq(values, 1) \div Len(values)

\* the integer r with lo <= r < hi and r * r <= x < (r + 1) * (r + 1)
RECURSIVE ISqrtIn(_, _, _)
ISqrtIn(x, lo, hi) ==
    IF hi - lo <= 1 THEN lo
    ELSE LET mid == (lo + hi) \div 2
         IN  IF mid <= x \div mid THEN ISqrtIn(x, mid, hi) ELSE ISqrtIn(x, lo, mid)

\* the square root, exact on the squares the windows of the model produce
ISqrt(x) == ISqrtIn(x, 0, x + 1)

\* statistics.pstdev
PStdev(values) ==
    LET mu == FMean(values)
        sq == [i \in 1..Len(values) |-> (values[i] - mu) * (values[i] - mu)]
    IN  ISqrt(SumSeq(sq, 1) \div Len(values))

\* an update that stores the mean and the deviation one after the other and
\* is left between the two stores: the new mean next to the deviation of the
\* update before
UpdateBaselineMapTorn(bl, metric, values) ==
    IF values = <<>> THEN bl
    ELSE LET mu == FMean(values)
             sd == IF Len(values) > 1 THEN PStdev(values) ELSE 0
         IN  [k \in DOMAIN bl \cup {metric} |->
                 IF k = metric
                 THEN <<mu, IF k \in DOMAIN bl THEN bl[k][2] ELSE sd>>
                 ELSE bl[k]]

\* AnomalyDetector.update_baseline on the baseline map bl
UpdateBaselineMap(bl, metric, values) ==
    IF values = <<>> THEN bl
    ELSE LET mu == FMean(values)
             sd == IF Len(values) > 1 THEN PStdev(values) ELSE 0
         IN  [k \in DOMAIN bl \cup {metric} |-> IF k = metric THEN <<mu, sd>> ELSE bl[k]]

\* max(1e-6, abs(v)*0.05): 1e-6 lies below the resolution and is the larger of
\* the two only for v = 0, where it is kept as the least positive number
ColdSd(v) == IF Abs(v) \div Twentieths > 0 THEN Abs(v) \div Twentieths ELSE 1

\* a loop body whose cold-start default takes the mean 0 instead of the value
DetectOneZeroMean(bl, k, v) ==
    LET base == IF k \in DOMAIN bl THEN bl[k] ELSE <<0, ColdSd(v)>>
        mu   == base[1]
        sd   == base[2]
        z    == IF sd = 0 THEN <<0, 1>> ELSE <<v - mu, sd>>
        sev  == IF Abs(z[1]) > 3 * z[2] THEN "high"
                ELSE IF Abs(z[1]) > 2 * z[2] THEN "medium" ELSE "low"
        hint == IF v > mu THEN "above" ELSE "below"
    IN  IF Abs(z[1]) >= 2 * z[2]
        THEN <<[metric |-> k, value |-> v, baseline |-> mu, zscore |-> z,
                severity |-> sev, hint |-> hint]>>
        ELSE <<>>

\* a loop body that reports only what it classifies as medium or high
DetectOneStrict(bl, k, v) ==
    LET base == IF k \in DOMAIN bl THEN bl[k] ELSE <<v, ColdSd(v)>>
        mu   == base[1]
        sd   == base[2]
        z    == IF sd = 0 THEN <<0, 1>> ELSE <<v - mu, sd>>
        sev  == IF Abs(z[1]) > 3 * z[2] THEN "high"
                ELSE IF Abs(z[1]) > 2 * z[2] THEN "medium" ELSE "low"
        hint == IF v > mu THEN "above" ELSE "below"
    IN  IF Abs(z[1]) > 2 * z[2]
        THEN <<[metric |-> k, value |-> v, baseline |-> mu, zscore |-> z,
                severity |-> sev, hint |-> hint]>>
        ELSE <<>>

\* the body of the loop of detect for one entry: the empty list or one Anomaly.
\* zscore is the fraction <<v - mu, sd>> (<<0, 1>> when sd = 0).
\* a detect that divides by the smallest deviation when the baseline has none
DetectOneTinySd(bl, k, v) ==
    LET base == IF k \in DOMAIN bl THEN bl[k] ELSE <<v, ColdSd(v)>>
        mu   == base[1]
        sd   == IF base[2] = 0 THEN 1 ELSE base[2]
        z    == <<v - mu, sd>>
        sev  == IF Abs(z[1]) > 3 * z[2] THEN "high"
                ELSE IF Abs(z[1]) > 2 * z[2] THEN "medium" ELSE "low"
        hint == IF v > mu THEN "above" ELSE "below"
    IN  IF Abs(z[1]) >= 2 * z[2]
        THEN <<[metric |-> k, value |-> v, baseline |-> mu, zscore |-> z,
                severity |-> sev, hint |-> hint]>>
        ELSE <<>>

DetectOne(bl, k, v) ==
    LET base == IF k \in DOMAIN bl THEN bl[k] ELSE <<v, ColdSd(v)>>
        mu   == base[1]
        sd   == base[2]
        z    == IF sd = 0 THEN <<0, 1>> ELSE <<v - mu, sd>>
        sev  == IF Abs(z[1]) > 3 * z[2] THEN "high"
                ELSE IF Abs(z[1]) > 2 * z[2] THEN "medium" ELSE "low"
        hint == IF v > mu THEN "above" ELSE "below"
    IN  IF Abs(z[1]) >= 2 * z[2]
        THEN <<[metric |-> k, value |-> v, baseline |-> mu, zscore |-> z,
                severity |-> sev, hint |-> hint]>>
        ELSE <<>>

\* AnomalyDetector.detect; metrics is the dict as its sequence of <<key, value>>
RECURSIVE Detect(_, _, _)
Detect(bl, metrics, i) ==
    IF i > Len(metrics) THEN <<>>
    ELSE DetectOne(bl, metrics[i][1], metrics[i][2]) \o Detect(bl, metrics, i + 1)

(***************************************************************************)
(* DiagnosisEngine                                                         *)
(***************************************************************************)
\* context.get(key, [])
CtxGet(context, key) == IF key \in DOMAIN context THEN context[key] ELSE <<>>

\* m.get(metric) is not None, for m = {a.metric: a for a in anomalies}
HasAnomaly(anomalies, metric) == \E i \in 1..Len(anomalies) : anomalies[i].metric = metric

\* m.get(metric): the last anomaly of that metric
AnomalyOf(anomalies, metric) ==
    LET hits == {i \in 1..Len(anomalies) : anomalies[i].metric = metric}
    IN  anomalies[CHOOSE i \in hits : \A j \in hits : j <= i]

\* a.zscore > n
ZAbove(a, n) == a.zscore[1] > n * a.zscore[2]

\* a diagnose that tries the backpressure rule before the degradation rule
DiagnoseBackpressureFirst(anomalies, context) ==
    LET cpu  == HasAnomaly(anomalies, "cpu_load")
        mem  == HasAnomaly(anomalies, "memory_usage")
        err  == HasAnomaly(anomalies, "error_rate")
        lat  == HasAnomaly(anomalies, "latency_p95")
        qlen == HasAnomaly(anomalies, "queue_depth")
    IN  IF lat /\ qlen /\ ZAbove(AnomalyOf(anomalies, "latency_p95"), 2)
           /\ ZAbove(AnomalyOf(anomalies, "queue_depth"), 2)
        THEN [issue_type |-> "backpressure",
              root_cause |-> "queue growth causing latency",
              confidence |-> 70,
              impacted_components |-> CtxGet(context, "queues"),
              recommended_strategies |-> <<"increase_workers", "rebalance_load", "purge_stuck">>]
        ELSE IF err /\ (cpu \/ mem)
        THEN [issue_type |-> "degradation",
              root_cause |-> "elevated error rate under resource pressure",
              confidence |-> 75,
              impacted_components |-> CtxGet(context, "services"),
              recommended_strategies |-> <<"scale_service", "restart_unhealthy", "throttle_traffic">>]
        ELSE IF cpu /\ ZAbove(AnomalyOf(anomalies, "cpu_load"), 3)
        THEN [issue_type |-> "resource_hotspot",
              root_cause |-> "sustained high CPU",
              confidence |-> 65,
              impacted_components |-> CtxGet(context, "services"),
              recommended_strategies |-> <<"scale_service", "restart_unhealthy">>]
        ELSE IF mem /\ ZAbove(AnomalyOf(anomalies, "memory_usage"), 3)
        THEN [issue_type |-> "memory_pressure",
              root_cause |-> "sustained high memory",
              confidence |-> 65,
              impacted_components |-> CtxGet(context, "services"),
              recommended_strategies |-> <<"restart_unhealthy", "recycle_container">>]
        ELSE [issue_type |-> "unknown",
              root_cause |-> "insufficient data",
              confidence |-> 50,
              impacted_components |-> <<>>,
              recommended_strategies |-> <<>>]

\* DiagnosisEngine.diagnose (confidence in hundredths)
Diagnose(anomalies, context) ==
    LET cpu  == HasAnomaly(anomalies, "cpu_load")
        mem  == HasAnomaly(anomalies, "memory_usage")
        err  == HasAnomaly(anomalies, "error_rate")
        lat  == HasAnomaly(anomalies, "latency_p95")
        qlen == HasAnomaly(anomalies, "queue_depth")
    IN  IF err /\ (cpu \/ mem)
        THEN [issue_type |-> "degradation",
              root_cause |-> "elevated error rate under resource pressure",
              confidence |-> 75,
              impacted_components |-> CtxGet(context, "services"),
              recommended_strategies |-> <<"scale_service", "restart_unhealthy", "throttle_traffic">>]
        ELSE IF lat /\ qlen /\ ZAbove(AnomalyOf(anomalies, "latency_p95"), 2)
                /\ ZAbove(AnomalyOf(anomalies, "queue_depth"), 2)
        THEN [issue_type |-> "backpressure",
              root_cause |-> "queue growth causing latency",
              confidence |-> 70,
              impacted_components |-> CtxGet(context, "queues"),
              recommended_strategies |-> <<"increase_workers", "rebalance_load", "purge_stuck">>]
        ELSE IF cpu /\ ZAbove(AnomalyOf(anomalies, "cpu_load"), 3)
        THEN [issue_type |-> "resource_hotspot",
              root_cause |-> "sustained high CPU",
              confidence |-> 65,
              impacted_components |-> CtxGet(context, "services"),
              recommended_strategies |-> <<"scale_service", "restart_unhealthy">>]
        ELSE IF mem /\ ZAbove(AnomalyOf(anomalies, "memory_usage"), 3)
        THEN [issue_type |-> "memory_pressure",
              root_cause |-> "sustained high memory",
              confidence |-> 65,
              impacted_components |-> CtxGet(context, "services"),
              recommended_strategies |-> <<"restart_unhealthy", "recycle_container">>]
        ELSE [issue_type |-> "unknown",
              root_cause |-> "insufficient data",
              confidence |-> 50,
              impacted_components |-> <<>>,
              recommended_strategies |-> <<>>]

\* an acceptance that ignores the keywords Diagnosis does not have
DiagnosisAcceptsExtra(d) ==
    {"issue_type", "root_cause", "confidence"} \subseteq DOMAIN d

\* Diagnosis(**d) does not raise TypeError: the required fields are given and
\* no unknown one is
DiagnosisAccepts(d) ==
    /\ {"issue_type", "root_cause", "confidence"} \subseteq DOMAIN d
    /\ DOMAIN d \subseteq {"issue_type", "root_cause", "confidence",
                           "impacted_components", "recommended_strategies"}

\* Diagnosis(**d): the dataclass with its list defaults filled in
MakeDiagnosis(d) ==
    [issue_type |-> d.issue_type, root_cause |-> d.root_cause, confidence |-> d.confidence,
     impacted_components |-> CtxGet(d, "impacted_components"),
     recommended_strategies |-> CtxGet(d, "recommended_strategies")]

(***************************************************************************)
(* Inputs of the requests                                                  *)
(***************************************************************************)
MemoryDiagnosis ==
    [issue_type |-> "memory_pressure", root_cause |-> "sustained high memory",
     confidence |-> 65, impacted_components |-> <<"svc-a">>,
     recommended_strategies |-> <<"restart_unhealthy", "recycle_container">>]

BackpressureDiagnosis ==
    [issue_type |-> "backpressure", root_cause |-> "queue growth causing latency",
     confidence |-> 70, impacted_components |-> <<>>,
     recommended_strategies |-> <<"increase_workers", "rebalance_load", "purge_stuck">>]

\* a diagnosis payload without the required root_cause and confidence
MalformedDiagnosis == [issue_type |-> "degradation"]

\* a diagnosis payload with every field of Diagnosis and one it does not have
UnknownFieldDiagnosis ==
    [issue_type |-> "memory_pressure", root_cause |-> "sustained high memory",
     confidence |-> 65, impacted_components |-> <<>>,
     recommended_strategies |-> <<"restart_unhealthy">>, severity |-> "high"]

\* the issue argument of heal: {} or {"diagnosis": ...}
HealIssues(m) ==
    IF m = "seq"
    THEN {<<>>} \cup {[diagnosis |-> d] : d \in {MemoryDiagnosis, BackpressureDiagnosis,
                                                 MalformedDiagnosis, UnknownFieldDiagnosis}}
    ELSE {<<>>, [diagnosis |-> MemoryDiagnosis]}

\* the strategy argument of heal
HealOverrides(m) ==
    IF m = "seq" THEN {None, "", "does_not_exist", "throttle_traffic"} ELSE {None}

\* context["containers"]
ContainerLists(m) == IF m = "seq" THEN {<<>>, <<"c1", "c2">>} ELSE {<<>>}

\* the metrics that are given baselines
BaselineMetrics == {"error_rate", "cpu_load"}

\* the windows pushed to update_baseline: the empty one, a single value, two
\* equal values, and windows of mean and population deviation (10, 1),
\* (40, 5) and (0.01, 0.01)
BaselineWindows == {<<>>, <<1000>>, <<1200, 1200>>, <<900, 1100>>, <<3500, 4500>>, <<0, 2>>}

\* the readings handed to detect
DetectValues == {-1000, 0, 1, 30, 600, 800, 1000, 1200, 1250, 1300, 1350, 1600, 4000, 9500}

\* the metrics dicts handed to detect, each as its sequence of items
DetectMetrics ==
    {<<>>}
    \cup {<<<<k, v>>>> : k \in BaselineMetrics \cup {"x"}, v \in DetectValues}
    \cup {<<<<"error_rate", e>>, <<"cpu_load", c>>>> : e \in {1, 30}, c \in {4000, 9500}}
    \cup {<<<<"cpu_load", c>>, <<"error_rate", e>>>> : e \in {1, 30}, c \in {4000, 9500}}

\* the metrics argument of analyze: {} or {"error_rate": 0.3, "cpu_load": 95}
\* next to heals, every dict of DetectMetrics next to the detector
AnalyzeMetrics(m) ==
    IF m = "seq"
    THEN {<<>>, <<<<"error_rate", 30>>, <<"cpu_load", 9500>>>>}
    ELSE IF m = "det" THEN DetectMetrics ELSE {<<>>}

\* the metrics diagnose looks at
DiagnosedMetrics == <<"error_rate", "cpu_load", "memory_usage", "latency_p95", "queue_depth">>

\* readings against the baseline (0, 0.02): no anomaly, z = 2.5, z = 3.5, z = -4
CraftedValues == {0, 5, 7, -8}

\* detect's report for one reading of metric k against the baseline (0, 0.02)
CraftedAnomaly(k, v) == DetectOne((k :> <<0, 2>>), k, v)

RECURSIVE CraftedList(_, _)
CraftedList(f, i) ==
    IF i > Len(DiagnosedMetrics) THEN <<>>
    ELSE CraftedAnomaly(DiagnosedMetrics[i], f[i]) \o CraftedList(f, i + 1)

\* the anomaly lists handed to diagnose
CraftedAnomalies ==
    {CraftedList(f, 1) : f \in [1..Len(DiagnosedMetrics) -> CraftedValues]}

\* the context argument of diagnose
DiagnoseContexts == {<<>>, [services |-> <<"svc-a">>, queues |-> <<"q1", "q1">>]}

\* the threads that serve requests
Active(m) == IF m = "conc" THEN Threads ELSE {"t1"}

MaxOps(m) == IF m = "conc" THEN MaxConcOps ELSE MaxSeqOps

(***************************************************************************)
(* Request threads                                                         *)
(***************************************************************************)
NoRecord == [none |-> TRUE]

\* the locals of a thread that runs no invocation
IdleLocals ==
    [op |-> "none", issue |-> NoRecord, strategy |-> None, metrics |-> <<>>,
     dbBefore |-> 0, dry_run |-> FALSE, containers |-> <<>>, diag |-> NoRecord,
     candidates |-> <<>>, chosen |-> None, outcome |-> NoRecord, calls |-> <<>>, raised |-> {}, failAt |-> 0, tmp |-> 0,
     payload |-> NoRecord, steps |-> <<>>, sinkFailed |-> FALSE, result |-> NoRecord,
     event |-> NoRecord, emitFailed |-> FALSE, response |-> NoRecord,
     scoresBefore |-> <<>>, base |-> NoRecord, findings |-> <<>>, used |-> <<>>]

InitService ==
    /\ scores = <<>>
    /\ baselines = <<>>
    /\ db = <<>>
    /\ dockerAvailable \in BOOLEAN
    /\ pc = [t \in Threads |-> "idle"]
    /\ inv = [t \in Threads |-> IdleLocals]
    /\ started = 0
    /\ recorded = <<>>
    /\ bestResult = NoRecord
    /\ called = NoRecord
    /\ stats = NoRecord

Init == InitService /\ mode = "seq"

InitConc == InitService /\ mode = "conc"

\* candidates that prefer the recommendations of the diagnosis to the override
HealCandidatesDiagFirst(strategy, diag) ==
    IF diag.recommended_strategies # <<>> THEN diag.recommended_strategies
    ELSE IF Truthy(strategy) THEN <<strategy>> ELSE <<>>

\* heal, line 261: candidates = strategy and [strategy] or diag.recommended_strategies
HealCandidates(strategy, diag) ==
    IF Truthy(strategy) THEN <<strategy>> ELSE diag.recommended_strategies

\* a choice that falls back to the first catalog entry when there is no candidate
HealChosenDefault(sc, candidates) ==
    IF Truthy(Best(sc, candidates)) THEN Best(sc, candidates)
    ELSE IF candidates # <<>> THEN candidates[1] ELSE StrategyList[1].name

\* heal, line 262: chosen = best(candidates) or (candidates[0] if candidates else None)
HealChosen(sc, candidates) ==
    IF Truthy(Best(sc, candidates)) THEN Best(sc, candidates)
    ELSE IF candidates # <<>> THEN candidates[1] ELSE None

\* heal, lines 260-264
HealBegin(t) ==
    /\ pc[t] = "idle"
    /\ t \in Active(mode)
    /\ started < MaxOps(mode)
    /\ started' = started + 1
    /\ \E issue \in HealIssues(mode), strategy \in HealOverrides(mode),
          dry_run \in BOOLEAN, containers \in ContainerLists(mode) :
        IF "diagnosis" \in DOMAIN issue /\ ~DiagnosisAccepts(issue.diagnosis)
        THEN /\ pc' = [pc EXCEPT ![t] = "raised"]
             /\ inv' = [inv EXCEPT ![t] = [IdleLocals EXCEPT !.op = "heal",
                                             !.issue = issue, !.strategy = strategy,
                                             !.dbBefore = Len(db),
                                             !.result = [error |-> "TypeError"]]]
        ELSE LET diag == IF "diagnosis" \in DOMAIN issue
                         THEN MakeDiagnosis(issue.diagnosis)
                         ELSE Diagnose(<<>>, [containers |-> containers])
                 chosen == HealChosen(scores, HealCandidates(strategy, diag))
             IN  IF ~Truthy(chosen)
                 THEN /\ pc' = [pc EXCEPT ![t] = "done"]
                      /\ inv' = [inv EXCEPT ![t] = [IdleLocals EXCEPT !.op = "heal",
                                    !.issue = issue, !.strategy = strategy,
                                    !.dbBefore = Len(db), !.diag = diag,
                                    !.candidates = HealCandidates(strategy, diag),
                                    !.result = [applied |-> FALSE, reason |-> "no_strategy"]]]
                 ELSE /\ pc' = [pc EXCEPT ![t] = "execute"]
                      /\ inv' = [inv EXCEPT ![t] = [IdleLocals EXCEPT !.op = "heal",
                                    !.issue = issue, !.strategy = strategy,
                                    !.dbBefore = Len(db), !.scoresBefore = scores,
                                    !.dry_run = dry_run, !.containers = containers,
                                    !.diag = diag, !.chosen = chosen,
                                    !.candidates = HealCandidates(strategy, diag)]]
    /\ UNCHANGED <<scores, baselines, db, dockerAvailable, mode, recorded, bestResult, called, stats>>

\* which call of the container API raises, one choice per action of the
\* strategy (0: none)
FailChoices(name, containers) ==
    IF LibHas(name)
    THEN [1..Len(LibGet(name).actions) -> 0..Len(TryCalls("docker.recycle", containers))]
    ELSE {<<>>}

\* heal, line 266
HealExecute(t) ==
    /\ pc[t] = "execute"
    /\ \E fails \in FailChoices(inv[t].chosen, inv[t].containers) :
        LET r == Execute(inv[t].chosen, inv[t].containers, inv[t].dry_run,
                         dockerAvailable, fails)
        IN  inv' = [inv EXCEPT ![t].outcome = r.outcome, ![t].calls = r.calls,
                               ![t].raised = r.raised,
                               ![t].failAt = IF r.raised = {} THEN 0 ELSE fails[1],
                               ![t].steps = Append(@, "execute")]
    /\ pc' = [pc EXCEPT ![t] = "persist"]
    /\ UNCHANGED <<scores, baselines, db, dockerAvailable, started, mode, recorded, bestResult, called, stats>>

\* the parameters of the CREATE (h:HealingAttempt ...) query
AttemptRecord(l) ==
    [strategy |-> l.chosen, dryRun |-> l.dry_run, applied |-> l.outcome.applied,
     issueType |-> l.diag.issue_type, rootCause |-> l.diag.root_cause]

\* a persist that keeps one node per strategy (MERGE instead of CREATE): an
\* earlier attempt of the same strategy is overwritten
HealPersistMerge(t) ==
    /\ pc[t] = "persist"
    /\ \/ /\ db' = LET new  == AttemptRecord(inv[t])
                        hits == {i \in 1..Len(db) : db[i].strategy = new.strategy}
                    IN  IF hits = {} THEN Append(db, new)
                        ELSE [i \in 1..Len(db) |-> IF i \in hits THEN new ELSE db[i]]
          /\ inv' = [inv EXCEPT ![t].steps = Append(@, "persist"),
                                ![t].calls = <<>>, ![t].raised = {}, ![t].failAt = 0,
                                ![t].containers = <<>>]
          /\ pc' = [pc EXCEPT ![t] = "learn"]
       \/ /\ db' = db
          /\ inv' = [inv EXCEPT ![t].result = [error |-> "PersistenceError"],
                                ![t].calls = <<>>, ![t].raised = {}, ![t].failAt = 0,
                                ![t].containers = <<>>]
          /\ pc' = [pc EXCEPT ![t] = "raised"]
    /\ UNCHANGED <<scores, baselines, dockerAvailable, started, mode, recorded, bestResult, called, stats>>

\* heal, lines 268-288: get_client().run_query(...) creates the node, or raises
\* when the driver or the session fails; heal has no handler around it.
\* The record of what execute did (calls, raised) is dropped here.
HealPersist(t) ==
    /\ pc[t] = "persist"
    /\ \/ /\ db' = Append(db, AttemptRecord(inv[t]))
          /\ inv' = [inv EXCEPT ![t].steps = Append(@, "persist"),
                                ![t].calls = <<>>, ![t].raised = {}, ![t].failAt = 0,
                                ![t].containers = <<>>]
          /\ pc' = [pc EXCEPT ![t] = "learn"]
       \/ /\ db' = db
          /\ inv' = [inv EXCEPT ![t].result = [error |-> "PersistenceError"],
                                ![t].calls = <<>>, ![t].raised = {}, ![t].failAt = 0,
                                ![t].containers = <<>>]
          /\ pc' = [pc EXCEPT ![t] = "raised"]
    /\ UNCHANGED <<scores, baselines, dockerAvailable, started, mode, recorded, bestResult, called, stats>>

\* an update that counts every attempt as a success
LearnSuccessAlways(outcome) == "applied" \in DOMAIN outcome

\* LearningEngine.update: success = bool(outcome.get("applied"))
LearnSuccess(outcome) == "applied" \in DOMAIN outcome /\ outcome.applied

\* record_outcome, line 180: rec = self._scores.setdefault(name, {...})
LearnSetDefault(t) ==
    /\ pc[t] = "learn"
    /\ scores' = SetDefault(scores, inv[t].chosen)
    /\ pc' = [pc EXCEPT ![t] = "load_attempts"]
    /\ UNCHANGED <<baselines, db, dockerAvailable, inv, started, mode, recorded, bestResult, called, stats>>

\* record_outcome, line 181: rec["attempts"] += 1, the read
LearnLoadAttempts(t) ==
    /\ pc[t] = "load_attempts"
    /\ inv' = [inv EXCEPT ![t].tmp = scores[inv[t].chosen].attempts]
    /\ pc' = [pc EXCEPT ![t] = "store_attempts"]
    /\ UNCHANGED <<scores, baselines, db, dockerAvailable, started, mode, recorded, bestResult, called, stats>>

\* record_outcome has returned to learner.update and heal (line 290)
LearnDone(t) ==
    /\ recorded' = LET n == inv[t].chosen
                       r == SetDefault(recorded, n)
                   IN  [r EXCEPT ![n].attempts = @ + 1,
                                 ![n].success = @ + (IF LearnSuccess(inv[t].outcome) THEN 1 ELSE 0)]
    /\ inv' = [inv EXCEPT ![t].steps = Append(@, "learn"), ![t].tmp = 0]
    /\ pc' = [pc EXCEPT ![t] = IF inv[t].op = "heal" THEN "publish" ELSE "done"]

\* record_outcome, line 181: rec["attempts"] += 1, the write
LearnStoreAttempts(t) ==
    /\ pc[t] = "store_attempts"
    /\ scores' = [scores EXCEPT ![inv[t].chosen].attempts = inv[t].tmp + 1]
    /\ IF LearnSuccess(inv[t].outcome)
       THEN /\ pc' = [pc EXCEPT ![t] = "load_success"]
            /\ UNCHANGED <<inv, recorded>>
       ELSE LearnDone(t)
    /\ UNCHANGED <<baselines, db, dockerAvailable, started, mode, bestResult, called, stats>>

\* record_outcome, line 183: rec["success"] += 1, the read
LearnLoadSuccess(t) ==
    /\ pc[t] = "load_success"
    /\ inv' = [inv EXCEPT ![t].tmp = scores[inv[t].chosen].success]
    /\ pc' = [pc EXCEPT ![t] = "store_success"]
    /\ UNCHANGED <<scores, baselines, db, dockerAvailable, started, mode, recorded, bestResult, called, stats>>

\* record_outcome, line 183: rec["success"] += 1, the write
LearnStoreSuccess(t) ==
    /\ pc[t] = "store_success"
    /\ scores' = [scores EXCEPT ![inv[t].chosen].success = inv[t].tmp + 1]
    /\ LearnDone(t)
    /\ UNCHANGED <<baselines, db, dockerAvailable, started, mode, bestResult, called, stats>>

\* heal, line 291: the payload
HealPayload(l) == [strategy |-> l.chosen, outcome |-> l.outcome, issue |-> l.diag]

\* publish_exchange("ops.selfhealing", op, payload): best effort, a failed
\* publish is not raised to the caller
PublishExchange(l, delivered) ==
    [l EXCEPT !.payload = IF l.op = "heal" THEN HealPayload(l) ELSE @,
              !.steps = Append(@, "publish"),
              !.sinkFailed = @ \/ ~delivered]

\* analyze, line 254; heal, lines 291-292
Publish(t) ==
    /\ pc[t] = "publish"
    /\ \E delivered \in BOOLEAN :
        inv' = [inv EXCEPT ![t] = PublishExchange(inv[t], delivered)]
    /\ pc' = [pc EXCEPT ![t] = "audit"]
    /\ UNCHANGED <<scores, baselines, db, dockerAvailable, started, mode, recorded, bestResult, called, stats>>

\* audit_event(name, payload, user): fire and forget, a failed write is not
\* raised to the caller
AuditEvent(l, written) ==
    [l EXCEPT !.steps = Append(@, "audit"), !.sinkFailed = @ \/ ~written]

\* an audit step that lets the failure of the sink escape to the caller
AuditRaising(t) ==
    /\ pc[t] = "audit"
    /\ \E written \in BOOLEAN :
        /\ inv' = [inv EXCEPT ![t] = [AuditEvent(inv[t], written) EXCEPT
                        !.result = IF written THEN inv[t].payload
                                   ELSE [error |-> "AuditError"]]]
        /\ pc' = [pc EXCEPT ![t] = IF written THEN "done" ELSE "raised"]
    /\ UNCHANGED <<scores, baselines, db, dockerAvailable, started, mode, recorded, bestResult, called, stats>>

\* analyze, lines 255-256; heal, lines 293-294: the audit record, then the return
Audit(t) ==
    /\ pc[t] = "audit"
    /\ \E written \in BOOLEAN :
        inv' = [inv EXCEPT ![t] = [AuditEvent(inv[t], written) EXCEPT
                                      !.result = inv[t].payload]]
    /\ pc' = [pc EXCEPT ![t] = "done"]
    /\ UNCHANGED <<scores, baselines, db, dockerAvailable, started, mode, recorded, bestResult, called, stats>>

\* an analyze that records an attempt of the primary recommendation
AnalyzeBeginLearning(t) ==
    /\ pc[t] = "idle"
    /\ t \in Active(mode)
    /\ started < MaxOps(mode)
    /\ started' = started + 1
    /\ \E metrics \in AnalyzeMetrics(mode), services \in {<<"svc-a">>} :
        LET anomalies == Detect(baselines, metrics, 1)
            diag == Diagnose(anomalies, [services |-> services])
        IN  /\ inv' = [inv EXCEPT ![t] = [IdleLocals EXCEPT !.op = "analyze",
                          !.metrics = metrics, !.dbBefore = Len(db),
                          !.payload = [anomalies |-> anomalies, diagnosis |-> diag]]]
            /\ scores' = RecordOutcome(scores, "restart_unhealthy", FALSE)
    /\ pc' = [pc EXCEPT ![t] = "publish"]
    /\ UNCHANGED <<baselines, db, dockerAvailable, mode, recorded, bestResult, called, stats>>

\* an analyze that diagnoses without handing over the anomalies it detected
AnalyzeBeginNoAnomalies(t) ==
    /\ pc[t] = "idle"
    /\ t \in Active(mode)
    /\ started < MaxOps(mode)
    /\ started' = started + 1
    /\ \E metrics \in AnalyzeMetrics(mode), services \in {<<"svc-a">>} :
        LET anomalies == Detect(baselines, metrics, 1)
            diag == Diagnose(<<>>, [services |-> services])
        IN  inv' = [inv EXCEPT ![t] = [IdleLocals EXCEPT !.op = "analyze",
                       !.metrics = metrics, !.dbBefore = Len(db),
                       !.payload = [anomalies |-> anomalies, diagnosis |-> diag]]]
    /\ pc' = [pc EXCEPT ![t] = "publish"]
    /\ UNCHANGED <<scores, baselines, db, dockerAvailable, mode, recorded, bestResult, called, stats>>

\* analyze, lines 248-253
AnalyzeBegin(t) ==
    /\ pc[t] = "idle"
    /\ t \in Active(mode)
    /\ started < MaxOps(mode)
    /\ started' = started + 1
    /\ \E metrics \in AnalyzeMetrics(mode), services \in {<<"svc-a">>} :
        LET anomalies == Detect(baselines, metrics, 1)
            diag == Diagnose(anomalies, [services |-> services])
        IN  inv' = [inv EXCEPT ![t] = [IdleLocals EXCEPT !.op = "analyze",
                       !.metrics = metrics, !.dbBefore = Len(db),
                       !.payload = [anomalies |-> anomalies, diagnosis |-> diag]]]
    /\ pc' = [pc EXCEPT ![t] = "publish"]
    /\ UNCHANGED <<scores, baselines, db, dockerAvailable, mode, recorded, bestResult, called, stats>>

\* the caller has the result, or the exception: the thread is free again
Return(t) ==
    /\ pc[t] \in {"done", "raised"}
    /\ pc' = [pc EXCEPT ![t] = "idle"]
    /\ inv' = [inv EXCEPT ![t] = IdleLocals]
    /\ UNCHANGED <<scores, baselines, db, dockerAvailable, started, mode, recorded, bestResult, called, stats>>

(***************************************************************************)
(* The detector and the diagnoser called directly                          *)
(***************************************************************************)
\* detector.update_baseline(metric, values) is called and returns
UpdateBaseline ==
    /\ called = NoRecord
    /\ \A t \in Threads : pc[t] = "idle"
    /\ \E metric \in BaselineMetrics, values \in BaselineWindows :
        /\ baselines' = UpdateBaselineMap(baselines, metric, values)
        /\ called' = [op |-> "update_baseline", metric |-> metric, values |-> values]
    /\ UNCHANGED <<scores, db, dockerAvailable, pc, inv, started, mode, recorded, bestResult, stats>>

\* detector.detect(metrics) is called and returns
DetectCall ==
    /\ called = NoRecord
    /\ \A t \in Threads : pc[t] = "idle"
    /\ \E metrics \in DetectMetrics :
        called' = [op |-> "detect", metrics |-> metrics,
                   result |-> Detect(baselines, metrics, 1)]
    /\ UNCHANGED <<scores, baselines, db, dockerAvailable, pc, inv, started, mode, recorded, bestResult, stats>>

\* diagnoser.diagnose(anomalies, context) is called and returns
DiagnoseCall ==
    /\ called = NoRecord
    /\ \E anomalies \in CraftedAnomalies, context \in DiagnoseContexts :
        called' = [op |-> "diagnose", anomalies |-> anomalies, context |-> context,
                   result |-> Diagnose(anomalies, context)]
    /\ UNCHANGED <<scores, baselines, db, dockerAvailable, pc, inv, started, mode, recorded, bestResult, stats>>

\* the caller of the detector or the diagnoser has taken the result
CallTaken ==
    /\ called # NoRecord
    /\ called' = NoRecord
    /\ UNCHANGED <<scores, baselines, db, dockerAvailable, pc, inv, started, mode, recorded, bestResult, stats>>

InitDetector == InitService /\ mode = "det"

NextDetector ==
    \/ UpdateBaseline
    \/ DetectCall
    \/ CallTaken
    \/ \E t \in Threads : called = NoRecord /\ AnalyzeBegin(t)
    \/ \E t \in Threads : Publish(t)
    \/ \E t \in Threads : Audit(t)
    \/ \E t \in Threads : Return(t)

\* baselines pushed, and detect and analyze run against them
SpecDetector == InitDetector /\ [][NextDetector]_vars

InitDiagnose == InitService /\ mode = "diag"

NextDiagnose ==
    \/ DiagnoseCall
    \/ CallTaken

\* diagnose applied to crafted anomaly lists
SpecDiagnose == InitDiagnose /\ [][NextDiagnose]_vars

Next ==
    \/ \E t \in Threads : HealBegin(t)
    \/ \E t \in Threads : HealExecute(t)
    \/ \E t \in Threads : HealPersist(t)
    \/ \E t \in Threads : LearnSetDefault(t)
    \/ \E t \in Threads : LearnLoadAttempts(t)
    \/ \E t \in Threads : LearnStoreAttempts(t)
    \/ \E t \in Threads : LearnLoadSuccess(t)
    \/ \E t \in Threads : LearnStoreSuccess(t)
    \/ \E t \in Threads : Publish(t)
    \/ \E t \in Threads : Audit(t)
    \/ \E t \in Threads : AnalyzeBegin(t)
    \/ \E t \in Threads : Return(t)

(***************************************************************************)
(* The selector used directly: one caller of record_outcome, and best      *)
(* called at any moment, also between two statements of record_outcome.    *)
(***************************************************************************)
SelectorNames == {"a", "b"}

\* the candidate lists handed to best
SelectorCandidates ==
    {<<>>} \cup {<<x>> : x \in SelectorNames}
           \cup {<<x, y>> : x \in SelectorNames, y \in SelectorNames}

InitSelector == InitService /\ mode = "sel"

\* selector.record_outcome(name, success) is called
RecordBegin(t) ==
    /\ pc[t] = "idle"
    /\ t = "t1"
    /\ bestResult = NoRecord
    /\ \E name \in SelectorNames, success \in BOOLEAN :
        /\ name \in DOMAIN scores => scores[name].attempts < MaxAttempts
        /\ inv' = [inv EXCEPT ![t] = [IdleLocals EXCEPT !.op = "record", !.chosen = name,
                                        !.scoresBefore = scores,
                                        !.outcome = [applied |-> success]]]
    /\ pc' = [pc EXCEPT ![t] = "learn"]
    /\ UNCHANGED <<scores, baselines, db, dockerAvailable, started, mode, recorded, bestResult, called, stats>>

\* selector.best(candidates) is called and returns
BestCall ==
    /\ bestResult = NoRecord
    /\ \E candidates \in SelectorCandidates :
        bestResult' = [candidates |-> candidates, result |-> Best(scores, candidates)]
    /\ UNCHANGED <<scores, baselines, db, dockerAvailable, pc, inv, started, mode, recorded, called, stats>>

\* the caller of best has taken the result
BestTaken ==
    /\ bestResult # NoRecord
    /\ bestResult' = NoRecord
    /\ UNCHANGED <<scores, baselines, db, dockerAvailable, pc, inv, started, mode, recorded, called, stats>>

NextSelector ==
    \/ \E t \in Threads : RecordBegin(t)
    \/ \E t \in Threads : bestResult = NoRecord /\ LearnSetDefault(t)
    \/ \E t \in Threads : bestResult = NoRecord /\ LearnLoadAttempts(t)
    \/ \E t \in Threads : bestResult = NoRecord /\ LearnStoreAttempts(t)
    \/ \E t \in Threads : bestResult = NoRecord /\ LearnLoadSuccess(t)
    \/ \E t \in Threads : bestResult = NoRecord /\ LearnStoreSuccess(t)
    \/ \E t \in Threads : bestResult = NoRecord /\ Return(t)
    \/ BestCall
    \/ BestTaken

SpecSelector == InitSelector /\ [][NextSelector]_vars

(***************************************************************************)
(* learning_stats.  The dict it returns holds the selector's own _scores    *)
(* object, not a copy; the caller's value is a reference to it.            *)
(***************************************************************************)
\* the identity of the dict object StrategySelector._scores
ScoresRef == [ref |-> "StrategySelector._scores"]

\* the dict a reference held by a caller denotes
Deref(x) == IF x = ScoresRef THEN scores ELSE x

\* learning_stats() is called and returns {"selector": self.selector._scores};
\* atCall keeps what the scores were at the call
LearningStats ==
    /\ stats = NoRecord
    /\ bestResult = NoRecord
    /\ \A t \in Threads : pc[t] = "idle"
    /\ stats' = [selector |-> ScoresRef, atCall |-> scores, cleared |-> FALSE]
    /\ UNCHANGED <<scores, baselines, db, dockerAvailable, pc, inv, started, mode, recorded, bestResult, called>>

\* the caller empties the dict it was given: result["selector"].clear()
StatsClear ==
    /\ stats # NoRecord /\ ~stats.cleared
    /\ \A t \in Threads : pc[t] = "idle"
    /\ stats' = [stats EXCEPT !.cleared = TRUE]
    /\ scores' = IF stats.selector = ScoresRef THEN <<>> ELSE scores
    /\ UNCHANGED <<baselines, db, dockerAvailable, pc, inv, started, mode, recorded, bestResult, called>>

\* the caller lets go of the dict it was given
StatsDropped ==
    /\ stats # NoRecord /\ ~stats.cleared
    /\ stats' = NoRecord
    /\ UNCHANGED <<scores, baselines, db, dockerAvailable, pc, inv, started, mode, recorded, bestResult, called>>

InitStats == InitService /\ mode = "stats"

\* whether the caller has emptied the dict it holds
StatsCleared == stats # NoRecord /\ stats.cleared

NextStats ==
    \/ \E t \in Threads : ~StatsCleared /\ RecordBegin(t)
    \/ \E t \in Threads : LearnSetDefault(t)
    \/ \E t \in Threads : LearnLoadAttempts(t)
    \/ \E t \in Threads : LearnStoreAttempts(t)
    \/ \E t \in Threads : LearnLoadSuccess(t)
    \/ \E t \in Threads : LearnStoreSuccess(t)
    \/ \E t \in Threads : Return(t)
    \/ LearningStats
    \/ StatsClear
    \/ StatsDropped
    \/ StatsCleared /\ BestCall
    \/ BestTaken

\* record_outcome, best and learning_stats used by one caller
SpecStats == InitStats /\ [][NextStats]_vars

(***************************************************************************)
(* The catalog read between requests                                       *)
(***************************************************************************)
\* the names handed to StrategyLibrary.get
LookupNames ==
    {StrategyList[i].name : i \in 1..Len(StrategyList)}
    \cup {"increase_workers", "does_not_exist", "", "Restart_Unhealthy"}

\* SelfHealingService.strategies() is called and returns
StrategiesCall ==
    /\ called = NoRecord
    /\ called' = [op |-> "strategies", result |-> StrategyList]
    /\ UNCHANGED <<scores, baselines, db, dockerAvailable, pc, inv, started, mode, recorded, bestResult, stats>>

\* executor.lib.get(name) is called and returns
GetCall ==
    /\ called = NoRecord
    /\ \E name \in LookupNames :
        called' = [op |-> "get", name |-> name, found |-> LibHas(name),
                   result |-> IF LibHas(name) THEN LibGet(name) ELSE NoRecord]
    /\ UNCHANGED <<scores, baselines, db, dockerAvailable, pc, inv, started, mode, recorded, bestResult, stats>>

InitCatalog == InitService /\ mode = "cat"

NextCatalog ==
    \/ StrategiesCall
    \/ GetCall
    \/ CallTaken
    \/ \E t \in Threads : called = NoRecord /\ HealBegin(t)
    \/ \E t \in Threads : called = NoRecord /\ AnalyzeBegin(t)
    \/ \E t \in Threads : HealExecute(t)
    \/ \E t \in Threads : HealPersist(t)
    \/ \E t \in Threads : LearnSetDefault(t)
    \/ \E t \in Threads : LearnLoadAttempts(t)
    \/ \E t \in Threads : LearnStoreAttempts(t)
    \/ \E t \in Threads : LearnLoadSuccess(t)
    \/ \E t \in Threads : LearnStoreSuccess(t)
    \/ \E t \in Threads : Publish(t)
    \/ \E t \in Threads : Audit(t)
    \/ \E t \in Threads : Return(t)

\* the catalog read at any moment of a run of analyze and heal requests
SpecCatalog == InitCatalog /\ [][NextCatalog]_vars

(***************************************************************************)
(* The HTTP handlers SHAnalyze.post and SHHeal.post                        *)
(* (src/api/resources/self_healing.py) around the service calls            *)
(***************************************************************************)
\* the name of the socket event of a handler
EventName(op) == IF op = "analyze" THEN "self_healing:analyze" ELSE "self_healing:heal"

\* the handler's audit_event(...) after svc.analyze / svc.heal has returned
HandlerAudit(t) ==
    /\ pc[t] = "done"
    /\ \E written \in BOOLEAN :
        inv' = [inv EXCEPT ![t].steps = Append(@, "api_audit"),
                           ![t].sinkFailed = @ \/ ~written]
    /\ pc' = [pc EXCEPT ![t] = "emit"]
    /\ UNCHANGED <<scores, baselines, db, dockerAvailable, started, mode, recorded, bestResult, called, stats>>

\* a handler whose socketio.emit is not wrapped in try / except
HandlerEmitUnguarded(t) ==
    /\ pc[t] = "emit"
    /\ \E ok \in BOOLEAN :
        /\ inv' = [inv EXCEPT ![t].event =
                        IF ok THEN [event |-> EventName(inv[t].op), payload |-> inv[t].result]
                        ELSE NoRecord,
                               ![t].emitFailed = ~ok,
                               ![t].steps = Append(@, "emit")]
        /\ pc' = [pc EXCEPT ![t] = IF ok THEN "respond" ELSE "responded"]
    /\ UNCHANGED <<scores, baselines, db, dockerAvailable, started, mode, recorded, bestResult, called, stats>>

\* try: socketio.emit(name, result) except Exception: pass
HandlerEmit(t) ==
    /\ pc[t] = "emit"
    /\ \E ok \in BOOLEAN :
        inv' = [inv EXCEPT ![t].event =
                        IF ok THEN [event |-> EventName(inv[t].op), payload |-> inv[t].result]
                        ELSE NoRecord,
                           ![t].emitFailed = ~ok,
                           ![t].steps = Append(@, "emit")]
    /\ pc' = [pc EXCEPT ![t] = "respond"]
    /\ UNCHANGED <<scores, baselines, db, dockerAvailable, started, mode, recorded, bestResult, called, stats>>

\* return result
HandlerRespond(t) ==
    /\ pc[t] = "respond"
    /\ inv' = [inv EXCEPT ![t].response = inv[t].result]
    /\ pc' = [pc EXCEPT ![t] = "responded"]
    /\ UNCHANGED <<scores, baselines, db, dockerAvailable, started, mode, recorded, bestResult, called, stats>>

\* the response has been sent: the thread is free again
HandlerClose(t) ==
    /\ pc[t] = "responded"
    /\ pc' = [pc EXCEPT ![t] = "idle"]
    /\ inv' = [inv EXCEPT ![t] = IdleLocals]
    /\ UNCHANGED <<scores, baselines, db, dockerAvailable, started, mode, recorded, bestResult, called, stats>>

InitHttp == InitService /\ mode = "http"

NextHttp ==
    \/ \E t \in Threads : HealBegin(t)
    \/ \E t \in Threads : AnalyzeBegin(t)
    \/ \E t \in Threads : HealExecute(t)
    \/ \E t \in Threads : HealPersist(t)
    \/ \E t \in Threads : LearnSetDefault(t)
    \/ \E t \in Threads : LearnLoadAttempts(t)
    \/ \E t \in Threads : LearnStoreAttempts(t)
    \/ \E t \in Threads : LearnLoadSuccess(t)
    \/ \E t \in Threads : LearnStoreSuccess(t)
    \/ \E t \in Threads : Publish(t)
    \/ \E t \in Threads : Audit(t)
    \/ \E t \in Threads : HandlerAudit(t)
    \/ \E t \in Threads : HandlerEmit(t)
    \/ \E t \in Threads : HandlerRespond(t)
    \/ \E t \in Threads : HandlerClose(t)
    \/ \E t \in Threads : pc[t] = "raised" /\ Return(t)

\* the requests of the HTTP layer, one at a time
SpecHttp == InitHttp /\ [][NextHttp]_vars

\* requests served one at a time, over the wide inputs
Spec == Init /\ [][Next]_vars

\* requests served concurrently by two threads
SpecConc == InitConc /\ [][Next]_vars

(***************************************************************************)
(* Properties                                                              *)
(***************************************************************************)
NoStrategyResult == [applied |-> FALSE, reason |-> "no_strategy"]

UnknownStrategyOutcome == [applied |-> FALSE, reason |-> "unknown_strategy"]

\* the steps of a heal that has selected a strategy, in the order of the code
HealOrder == <<"execute", "persist", "learn", "publish", "audit">>

\* the statements of record_outcome a thread can stand in
LearnPcs == {"learn", "load_attempts", "store_attempts", "load_success", "store_success"}

\* thread t runs (or has just ended) a heal that selected the strategy named
\* in its locals
HealSelected(t) == inv[t].op = "heal" /\ Truthy(inv[t].chosen)

\* C1: for every strategy name of the score map, attempts >= successes >= 0,
\* in every reachable state, whatever the interleaving of the invocations.
C1_ScoresOrdered ==
    \A n \in DOMAIN scores :
        scores[n].attempts >= scores[n].success /\ scores[n].success >= 0

\* C2: a heal whose chosen strategy is not in the catalog (named by the
\* override or by the diagnosis) ends with a defined result, the payload
\* whose outcome is {applied: false, reason: "unknown_strategy"}, and never
\* with an unhandled error.
C2_UnknownStrategyDefined ==
    \A t \in Threads :
        (HealSelected(t) /\ ~LibHas(inv[t].chosen) /\ pc[t] \in {"done", "raised"})
        => /\ pc[t] = "done"
           /\ inv[t].result = [strategy |-> inv[t].chosen,
                                outcome |-> UnknownStrategyOutcome,
                                issue |-> inv[t].diag]

\* C3: a heal without any candidate (no override, and a diagnosis, given or
\* synthesized, that recommends nothing) returns {applied: false, reason:
\* "no_strategy"} at once and changes nothing: no HealingAttempt, no score,
\* no call of the executor, no event.
C3_NoStrategyReturns ==
    \A t \in Threads :
        /\ (inv[t].op = "heal" /\ inv[t].diag # NoRecord /\ inv[t].candidates = <<>>)
           => (pc[t] = "done" /\ inv[t].result = NoStrategyResult)
        /\ inv[t].result = NoStrategyResult
           => (pc[t] = "done" /\ inv[t].steps = <<>> /\ inv[t].calls = <<>>
               /\ inv[t].outcome = NoRecord)

C3_NoStrategyStep ==
    \A t \in Threads :
        (pc[t] = "idle" /\ inv'[t].op = "heal" /\ inv'[t].diag # NoRecord
         /\ inv'[t].candidates = <<>>)
        => (scores' = scores /\ db' = db /\ recorded' = recorded
            /\ baselines' = baselines)

C3_NoStrategyFrame == [] C3_NoStrategyReturns /\ [][C3_NoStrategyStep]_vars

C3_Witness ==
    \E t \in Threads :
        /\ pc[t] = "done" /\ inv[t].op = "heal" /\ inv[t].candidates = <<>>
        /\ inv[t].result = NoStrategyResult
        /\ inv[t].diag.issue_type = "unknown"
        /\ db # <<>> /\ DOMAIN scores # {}

\* C4: every heal that selects a strategy performs, once each and in this
\* order, execute, persist, learn, publish and audit, and then returns.
C4_HealStepsInOrder ==
    \A t \in Threads :
        (HealSelected(t) /\ pc[t] \in {"done", "raised"})
        => (pc[t] = "done" /\ inv[t].steps = HealOrder)

\* C5: when persisting the HealingAttempt fails, heal still returns its
\* normal result; the failure does not surface as a failure of heal.
C5_PersistFailureNotFatal ==
    \A t \in Threads :
        ~(pc[t] = "raised" /\ inv[t].result = [error |-> "PersistenceError"])

C7_NoLostUpdate ==
    (\A t \in Threads : pc[t] \notin LearnPcs)
    => \A n \in DOMAIN recorded :
        /\ n \in DOMAIN scores
        /\ scores[n].attempts = recorded[n].attempts
        /\ scores[n].success = recorded[n].success

\* C8: a dry-run execute of a catalog strategy returns applied = false,
\* dry_run = true and a plan naming the strategy and its actions, and makes
\* no call of the container API, whatever the context and the availability
\* of the container integration.
C8_DryRunPlansOnly ==
    \A t \in Threads :
        (pc[t] = "persist" /\ inv[t].dry_run /\ LibHas(inv[t].chosen))
        => /\ inv[t].calls = <<>>
           /\ DOMAIN inv[t].outcome = {"applied", "plan", "dry_run"}
           /\ inv[t].outcome.applied = FALSE
           /\ inv[t].outcome.dry_run = TRUE
           /\ inv[t].outcome.plan.strategy = inv[t].chosen
           /\ inv[t].outcome.plan.actions = LibGet(inv[t].chosen).actions

C8_Witness ==
    \E t \in Threads :
        /\ pc[t] = "persist" /\ inv[t].dry_run /\ dockerAvailable
        /\ inv[t].chosen = "recycle_container" /\ inv[t].containers # <<>>
        /\ inv[t].outcome.plan.strategy = "recycle_container"

\* C9: in a non-dry-run execute of a catalog strategy a failing call of the
\* container API does not abort the strategy: the outcome is applied, its
\* actions list holds one result per action of the strategy, in order, and
\* the result of an action whose call failed carries the error.
C9_FailureKeepsGoing ==
    \A t \in Threads :
        (pc[t] = "persist" /\ ~inv[t].dry_run /\ LibHas(inv[t].chosen))
        => LET acts == LibGet(inv[t].chosen).actions
               res  == inv[t].outcome.actions
           IN  /\ inv[t].outcome.applied
               /\ inv[t].outcome.strategy = inv[t].chosen
               /\ Len(res) = Len(acts)
               /\ \A i \in 1..Len(acts) :
                    /\ res[i].type = acts[i].type
                    /\ (i \in inv[t].raised) <=> ("error" \in DOMAIN res[i])

C9_Witness ==
    \E t \in Threads :
        /\ pc[t] = "persist" /\ ~inv[t].dry_run /\ inv[t].raised = {1}
        /\ inv[t].chosen = "recycle_container"
        /\ Len(inv[t].calls) > 2
        /\ inv[t].outcome.actions = <<[type |-> "docker.recycle", error |-> "raised"]>>

\* the score of the specification: 0.5 without a record or with zero
\* attempts, successes / attempts otherwise
StatedScore(sc, n) ==
    IF n \notin DOMAIN sc \/ sc[n].attempts = 0 THEN <<1, 2>>
    ELSE <<sc[n].success, sc[n].attempts>>

\* C10: best returns none for the empty list, and otherwise the first
\* candidate, in input order, whose score is the maximum over the candidates.
C10_BestIsFirstMax ==
    bestResult # NoRecord
    => LET c == bestResult.candidates
           r == bestResult.result
       IN  IF c = <<>> THEN r = None
           ELSE \E i \in 1..Len(c) :
                   /\ c[i] = r
                   /\ \A j \in 1..Len(c) :
                        ~FracLess(StatedScore(scores, c[i]), StatedScore(scores, c[j]))
                   /\ \A j \in 1..(i - 1) :
                        FracLess(StatedScore(scores, c[j]), StatedScore(scores, c[i]))

C10_Witness ==
    /\ bestResult # NoRecord
    /\ bestResult.candidates = <<"b", "a">>
    /\ bestResult.result = "a"
    /\ "b" \notin DOMAIN scores
    /\ "a" \in DOMAIN scores
    /\ scores["a"] = [success |-> 3, attempts |-> 4]

\* the elements of a list
Range(xs) == {xs[i] : i \in 1..Len(xs)}

\* C11: the strategy heal executes and reports is a member of its candidate
\* list: the override when one is given, whatever the scores and the
\* diagnosis recommend, and otherwise one of the strategies the diagnosis
\* recommends.
C11_ChosenIsCandidate ==
    \A t \in Threads :
        HealSelected(t)
        => /\ inv[t].chosen \in Range(inv[t].candidates)
           /\ Truthy(inv[t].strategy) => inv[t].chosen = inv[t].strategy
           /\ ~Truthy(inv[t].strategy)
              => inv[t].chosen \in Range(inv[t].diag.recommended_strategies)
           /\ (inv[t].outcome # NoRecord /\ "plan" \in DOMAIN inv[t].outcome)
              => inv[t].outcome.plan.strategy = inv[t].chosen
           /\ (inv[t].outcome # NoRecord /\ "strategy" \in DOMAIN inv[t].outcome)
              => inv[t].outcome.strategy = inv[t].chosen
           /\ pc[t] = "done" => inv[t].result.strategy = inv[t].chosen
           /\ pc[t] \in {"learn", "publish", "audit", "done"}
              => db[Len(db)].strategy = inv[t].chosen

C11_Witness ==
    \E t \in Threads :
        /\ pc[t] = "done" /\ inv[t].op = "heal"
        /\ inv[t].strategy = "throttle_traffic"
        /\ inv[t].diag.recommended_strategies = <<"restart_unhealthy", "recycle_container">>
        /\ "restart_unhealthy" \in DOMAIN scores
        /\ scores["restart_unhealthy"].success > 0
        /\ scores["throttle_traffic"].success = 0
        /\ inv[t].result.strategy = "throttle_traffic"

\* C12: analyze changes nothing of the selector and persists nothing: every
\* step of an analyze invocation leaves the score map and the HealingAttempt
\* records as they were, also after heals have filled them.
C12_AnalyzeStep ==
    \A t \in Threads :
        (inv[t].op = "analyze" \/ inv'[t].op = "analyze")
        => (scores' = scores /\ db' = db /\ recorded' = recorded)

C12_AnalyzeFrame == [][C12_AnalyzeStep]_vars

C12_Witness ==
    \E t \in Threads :
        /\ pc[t] = "done" /\ inv[t].op = "analyze"
        /\ inv[t].metrics # <<>>
        /\ "diagnosis" \in DOMAIN inv[t].result
        /\ DOMAIN scores # {} /\ Len(db) = inv[t].dbBefore /\ db # <<>>

\* C13 as stated: every heal invocation that has ended, however it ended, has
\* added exactly one HealingAttempt record.
C13_OnePerHeal ==
    \A t \in Threads :
        (inv[t].op = "heal" /\ pc[t] \in {"done", "raised"})
        => Len(db) = inv[t].dbBefore + 1

\* the records one heal invocation has added so far
C13_AtMostOne ==
    \A t \in Threads :
        inv[t].op = "heal"
        => /\ Len(db) - inv[t].dbBefore \in {0, 1}
           /\ (pc[t] = "done" /\ inv[t].result # NoStrategyResult)
              => /\ Len(db) = inv[t].dbBefore + 1
                 /\ db[Len(db)] = [strategy  |-> inv[t].result.strategy,
                                    dryRun    |-> inv[t].dry_run,
                                    applied   |-> inv[t].result.outcome.applied,
                                    issueType |-> inv[t].result.issue.issue_type,
                                    rootCause |-> inv[t].result.issue.root_cause]
           /\ (pc[t] = "done" /\ inv[t].result = NoStrategyResult)
              => Len(db) = inv[t].dbBefore
           /\ pc[t] = "raised" => Len(db) = inv[t].dbBefore

\* no step changes or removes a record persisted earlier
C13_AppendOnlyStep ==
    /\ Len(db') >= Len(db)
    /\ SubSeq(db', 1, Len(db)) = db

\* C13, amended: a heal invocation adds at most one HealingAttempt record:
\* exactly one when it selects a strategy and the write succeeds, none when
\* it returns no_strategy or fails; and no operation ever changes or removes
\* a record persisted earlier.
C13_AppendOnly == []C13_AtMostOne /\ [][C13_AppendOnlyStep]_vars

C13_Witness ==
    \E t \in Threads :
        /\ pc[t] = "done" /\ inv[t].op = "heal" /\ inv[t].result # NoStrategyResult
        /\ inv[t].dbBefore = 2 /\ Len(db) = 3
        /\ db[1].strategy = db[3].strategy /\ db[1] # db[3]

\* a diagnosis payload is malformed: a required field is missing, or a field
\* is given that a diagnosis does not have
Malformed(d) ==
    \/ \E f \in {"issue_type", "root_cause", "confidence"} : f \notin DOMAIN d
    \/ \E f \in DOMAIN d : f \notin {"issue_type", "root_cause", "confidence",
                                      "impacted_components", "recommended_strategies"}

TypeErrorResult == [error |-> "TypeError"]

\* a heal given a malformed diagnosis has failed with the error, which is not
\* the no_strategy result, and has executed, persisted and chosen nothing;
\* and only such a heal fails with that error
C14_MalformedRaises ==
    \A t \in Threads :
        /\ (inv[t].op = "heal" /\ "diagnosis" \in DOMAIN inv[t].issue
             /\ Malformed(inv[t].issue.diagnosis))
           => /\ pc[t] = "raised"
              /\ inv[t].result = TypeErrorResult
              /\ inv[t].result # NoStrategyResult
              /\ inv[t].steps = <<>> /\ inv[t].calls = <<>>
              /\ inv[t].outcome = NoRecord /\ inv[t].chosen = None
              /\ Len(db) = inv[t].dbBefore
        /\ inv[t].result = TypeErrorResult
           => ("diagnosis" \in DOMAIN inv[t].issue /\ Malformed(inv[t].issue.diagnosis))

\* the step in which heal fails on the malformed diagnosis changes no score
\* and no record
C14_MalformedStep ==
    \A t \in Threads :
        (pc[t] = "idle" /\ inv'[t].result = TypeErrorResult)
        => (scores' = scores /\ db' = db /\ recorded' = recorded)

\* C14: a heal whose issue carries a malformed diagnosis (a required field
\* missing, or an unknown field) fails at once with an error that differs
\* from the no_strategy result, before any execution, persistence or score
\* update.
C14_FailFast == []C14_MalformedRaises /\ [][C14_MalformedStep]_vars

C14_Witness ==
    \E t \in Threads :
        /\ pc[t] = "raised" /\ inv[t].result = TypeErrorResult
        /\ inv[t].issue = [diagnosis |-> UnknownFieldDiagnosis]
        /\ inv[t].strategy = "throttle_traffic"
        /\ DOMAIN scores # {} /\ db # <<>>

\* the last direct call was of op
Called(op) == called # NoRecord /\ called.op = op

\* the anomalies of a list that are of metric k
AnomaliesOf(anomalies, k) == {i \in 1..Len(anomalies) : anomalies[i].metric = k}

\* no anomaly is reported for a metric of the dict that has no baseline
ColdQuiet(metrics, anomalies) ==
    \A i \in 1..Len(metrics) :
        metrics[i][1] \notin DOMAIN baselines => AnomaliesOf(anomalies, metrics[i][1]) = {}

C15_ColdStartQuiet ==
    /\ Called("detect") => ColdQuiet(called.metrics, called.result)
    /\ \A t \in Threads :
        (inv[t].op = "analyze" /\ pc[t] \in {"publish", "audit", "done"})
        => ColdQuiet(inv[t].metrics, inv[t].payload.anomalies)

\* a metric gets a baseline only in an update_baseline call for it with a
\* non-empty window; detect and analyze leave the baselines alone
C15_BaselineStep ==
    /\ \A k \in DOMAIN baselines' \ DOMAIN baselines :
        /\ called' # NoRecord /\ called'.op = "update_baseline"
        /\ called'.metric = k /\ called'.values # <<>>
    /\ (called' # NoRecord /\ called'.op \in {"detect", "diagnose"}) => baselines' = baselines
    /\ (\E t \in Threads : inv'[t].op = "analyze") => baselines' = baselines

\* C15: for a metric without a baseline detect reports no anomaly, whatever
\* the value; detect stores no baseline, so this lasts over any number of
\* detect calls until update_baseline is called for the metric with a
\* non-empty window.
C15_ColdStart == []C15_ColdStartQuiet /\ [][C15_BaselineStep]_vars

C15_Witness ==
    /\ Called("detect")
    /\ called.metrics = <<<<"error_rate", 30>>, <<"cpu_load", 9500>>>>
    /\ "cpu_load" \notin DOMAIN baselines
    /\ "error_rate" \in DOMAIN baselines
    /\ Len(called.result) = 1 /\ called.result[1].metric = "error_rate"

\* the z-score of the specification, as a fraction with positive denominator:
\* 0 if stdev = 0, else (value - mean) / stdev, against the baseline of the
\* metric or the cold-start default (value, max(1e-6, 0.05 |value|))
StatedBaseline(k, v) ==
    IF k \in DOMAIN baselines THEN baselines[k]
    ELSE <<v, IF Abs(v) >= Twentieths THEN Abs(v) \div Twentieths ELSE 1>>

StatedZ(k, v) ==
    LET b == StatedBaseline(k, v) IN IF b[2] = 0 THEN <<0, 1>> ELSE <<v - b[1], b[2]>>

\* |z| > n, |z| >= n
AbsZAbove(z, n) == Abs(z[1]) > n * z[2]
AbsZAtLeast(z, n) == Abs(z[1]) >= n * z[2]

StatedHint(k, v) == IF v > StatedBaseline(k, v)[1] THEN "above" ELSE "below"

\* C16 as stated: an anomaly is emitted exactly when |z| >= 2, it is high
\* when |z| > 3 and medium when |z| > 2, a reading that is neither is not
\* emitted, and the direction is above when value > mean, below otherwise.
C16_SeverityAsStated ==
    Called("detect")
    => \A i \in 1..Len(called.metrics) :
        LET k == called.metrics[i][1]
            v == called.metrics[i][2]
            z == StatedZ(k, v)
            e == AnomaliesOf(called.result, k)
        IN  /\ (e # {}) <=> AbsZAtLeast(z, 2)
            /\ \A j \in e :
                /\ called.result[j].severity =
                      (IF AbsZAbove(z, 3) THEN "high" ELSE "medium")
                /\ AbsZAbove(z, 2)
                /\ called.result[j].hint = StatedHint(k, v)

\* C16, amended: an anomaly is emitted exactly when |z| >= 2; its severity is
\* a function of |z| alone: high when |z| > 3, medium when 2 < |z| <= 3, low
\* when |z| = 2; a reading with |z| < 2 is not emitted; the direction is
\* above when value > mean and below otherwise.
C16_Severity ==
    Called("detect")
    => \A i \in 1..Len(called.metrics) :
        LET k == called.metrics[i][1]
            v == called.metrics[i][2]
            z == StatedZ(k, v)
            e == AnomaliesOf(called.result, k)
        IN  /\ (e # {}) <=> AbsZAtLeast(z, 2)
            /\ Cardinality(e) <= 1
            /\ \A j \in e :
                /\ called.result[j].severity =
                      (IF AbsZAbove(z, 3) THEN "high"
                       ELSE IF AbsZAbove(z, 2) THEN "medium" ELSE "low")
                /\ called.result[j].hint = StatedHint(k, v)
                /\ called.result[j].value = v
                /\ called.result[j].baseline = StatedBaseline(k, v)[1]

C16_Witness ==
    /\ Called("detect")
    /\ called.metrics = <<<<"cpu_load", 1600>>>>
    /\ "cpu_load" \in DOMAIN baselines /\ baselines["cpu_load"] = <<1000, 100>>
    /\ Len(called.result) = 1
    /\ called.result[1].severity = "high" /\ called.result[1].hint = "above"
    /\ called.result[1].zscore = <<600, 100>>

\* the rules of diagnose in their order, and what each recommends
RuleOrder == <<"degradation", "backpressure", "resource_hotspot", "memory_pressure", "unknown">>

\* metric k has an anomaly in A whose z-score exceeds n
HasZAbove(A, k, n) == HasAnomaly(A, k) /\ ZAbove(AnomalyOf(A, k), n)

RuleHolds(rule, A) ==
    CASE rule = "degradation" ->
            HasAnomaly(A, "error_rate")
            /\ (HasAnomaly(A, "cpu_load") \/ HasAnomaly(A, "memory_usage"))
      [] rule = "backpressure" ->
            HasZAbove(A, "latency_p95", 2) /\ HasZAbove(A, "queue_depth", 2)
      [] rule = "resource_hotspot" -> HasZAbove(A, "cpu_load", 3)
      [] rule = "memory_pressure" -> HasZAbove(A, "memory_usage", 3)
      [] OTHER -> TRUE

RuleStrategies(rule) ==
    CASE rule = "degradation" -> <<"scale_service", "restart_unhealthy", "throttle_traffic">>
      [] rule = "backpressure" -> <<"increase_workers", "rebalance_load", "purge_stuck">>
      [] rule = "resource_hotspot" -> <<"scale_service", "restart_unhealthy">>
      [] rule = "memory_pressure" -> <<"restart_unhealthy", "recycle_container">>
      [] OTHER -> <<>>

FirstRule(A) ==
    RuleOrder[CHOOSE i \in 1..Len(RuleOrder) :
                /\ RuleHolds(RuleOrder[i], A)
                /\ \A j \in 1..(i - 1) : ~RuleHolds(RuleOrder[j], A)]

\* C17: diagnose returns the outcome of the first rule, in the order
\* degradation, backpressure, resource_hotspot, memory_pressure, unknown,
\* whose condition holds for the anomalies, and of that rule alone.
C17_FirstMatch ==
    Called("diagnose")
    => /\ called.result.issue_type = FirstRule(called.anomalies)
       /\ called.result.recommended_strategies = RuleStrategies(FirstRule(called.anomalies))
       /\ called.result.impacted_components =
            (IF FirstRule(called.anomalies) = "unknown" THEN <<>>
             ELSE IF FirstRule(called.anomalies) = "backpressure"
                  THEN CtxGet(called.context, "queues")
                  ELSE CtxGet(called.context, "services"))

C17_Witness ==
    /\ Called("diagnose")
    /\ called.result.issue_type = "degradation"
    /\ HasAnomaly(called.anomalies, "error_rate") /\ HasAnomaly(called.anomalies, "cpu_load")
    /\ HasZAbove(called.anomalies, "latency_p95", 2)
    /\ HasZAbove(called.anomalies, "queue_depth", 2)
    /\ HasZAbove(called.anomalies, "memory_usage", 3)

\* the position of metric k in a metrics dict
Pos(metrics, k) == CHOOSE i \in 1..Len(metrics) : metrics[i][1] = k

ExampleBaselines ==
    /\ DOMAIN baselines = {"error_rate", "cpu_load"}
    /\ baselines["error_rate"] = <<1, 1>>
    /\ baselines["cpu_load"] = <<4000, 500>>

ExampleMetrics == <<<<"error_rate", 30>>, <<"cpu_load", 9500>>>>

\* C19: the result of analyze holds the anomalies detect reports for the
\* metrics against the current baselines, in the order of the metrics, and
\* the diagnosis diagnose gives for these anomalies and the context; with
\* the baselines (0.01, 0.01) of error_rate and (40, 5) of cpu_load, the
\* readings 0.3 and 95 give two high anomalies and the diagnosis degradation
\* with [scale_service, restart_unhealthy, throttle_traffic].
C19_AnalyzeComposes ==
    \A t \in Threads :
        (inv[t].op = "analyze" /\ pc[t] \in {"publish", "audit", "done"})
        => LET a == inv[t].payload.anomalies
               d == inv[t].payload.diagnosis
           IN  /\ DOMAIN inv[t].payload = {"anomalies", "diagnosis"}
               /\ a = Detect(baselines, inv[t].metrics, 1)
               /\ d = Diagnose(a, [services |-> <<"svc-a">>])
               /\ \A i \in 1..Len(a), j \in 1..Len(a) :
                    i < j => Pos(inv[t].metrics, a[i].metric) < Pos(inv[t].metrics, a[j].metric)
               /\ d.issue_type = FirstRule(a)
               /\ pc[t] = "done" => inv[t].result = inv[t].payload
               /\ (ExampleBaselines /\ inv[t].metrics = ExampleMetrics)
                  => /\ Len(a) = 2
                     /\ a[1].metric = "error_rate" /\ a[1].severity = "high"
                     /\ a[2].metric = "cpu_load" /\ a[2].severity = "high"
                     /\ d.issue_type = "degradation"
                     /\ d.recommended_strategies =
                          <<"scale_service", "restart_unhealthy", "throttle_traffic">>
                     /\ d.impacted_components = <<"svc-a">>

C19_Witness ==
    \E t \in Threads :
        /\ pc[t] = "done" /\ inv[t].op = "analyze"
        /\ ExampleBaselines /\ inv[t].metrics = ExampleMetrics
        /\ inv[t].result.diagnosis.issue_type = "degradation"
        /\ Len(inv[t].result.anomalies) = 2

\* C20: what learning_stats returned is a snapshot: while the caller leaves
\* it alone it stays what the scores were at the call, whatever
\* record_outcome does later; and when the caller changes it, the selector's
\* scores, and with them the results of best, stay what the completed
\* record_outcome calls made them.
C20_Snapshot ==
    stats # NoRecord
    => /\ ~stats.cleared => Deref(stats.selector) = stats.atCall
       /\ (stats.cleared /\ \A t \in Threads : pc[t] = "idle")
          => /\ \A n \in DOMAIN recorded :
                  n \in DOMAIN scores /\ scores[n] = recorded[n]
             /\ bestResult # NoRecord
                => bestResult.result = Best(recorded, bestResult.candidates)

\* the names of the catalog, in its order
CatalogNames ==
    <<"restart_unhealthy", "scale_service", "rebalance_load", "throttle_traffic",
      "purge_stuck", "recycle_container">>

\* C21: at every moment of a run of analyze and heal requests, strategies()
\* returns the six entries restart_unhealthy, scale_service, rebalance_load,
\* throttle_traffic, purge_stuck, recycle_container in this order, with unique
\* names, and get(name) returns an entry, the one of that name, exactly when
\* name is one of the six.
C21_CatalogFixed ==
    /\ Called("strategies")
       => /\ Len(called.result) = Len(CatalogNames)
          /\ \A i \in 1..Len(CatalogNames) : called.result[i].name = CatalogNames[i]
          /\ \A i \in 1..Len(called.result), j \in 1..Len(called.result) :
                called.result[i].name = called.result[j].name => i = j
          /\ \A i \in 1..Len(called.result) : called.result[i].actions # <<>>
    /\ Called("get")
       => /\ called.found <=> called.name \in Range(CatalogNames)
          /\ called.found
             => /\ called.result.name = called.name
                /\ called.result \in Range(StrategyList)

C21_Witness ==
    /\ Called("strategies")
    /\ called.result[6].name = "recycle_container"
    /\ DOMAIN scores # {} /\ Len(db) > 1
    /\ \E t \in Threads : pc[t] = "persist" /\ ~inv[t].dry_run /\ inv[t].calls # <<>>

\* C22: for a request whose service call has returned, the handler emits
\* the socket event of its operation with the service result as payload, not
\* before the service call has returned, and responds with the same result;
\* a failed emit leaves the response what it is.
C22_EmitAfterService ==
    \A t \in Threads :
        /\ inv[t].event # NoRecord
           => /\ pc[t] \in {"respond", "responded"}
              /\ inv[t].result # NoRecord
              /\ inv[t].event = [event |-> EventName(inv[t].op), payload |-> inv[t].result]
              /\ "audit" \in Range(inv[t].steps) \/ inv[t].result = NoStrategyResult
        /\ pc[t] \in {"respond", "responded"}
           => (inv[t].event # NoRecord <=> ~inv[t].emitFailed)
        /\ pc[t] = "responded"
           => /\ inv[t].response = inv[t].result
              /\ inv[t].result # NoRecord
              /\ "error" \notin DOMAIN inv[t].response
        /\ inv[t].emitFailed => pc[t] \in {"respond", "responded"}

C22_Witness ==
    \E t \in Threads :
        /\ pc[t] = "responded" /\ inv[t].op = "heal" /\ inv[t].emitFailed
        /\ inv[t].response = HealPayload(inv[t])
        /\ inv[t].response.strategy = "restart_unhealthy"

\* the record of name n in the score map sc, (0, 0) when there is none
RecordOf(sc, n) == IF n \in DOMAIN sc THEN sc[n] ELSE [success |-> 0, attempts |-> 0]

\* the score map is before with one attempt of n added, and one success of n
\* when success holds, and nothing else changed
OneOutcomeAdded(before, n, success) ==
    /\ DOMAIN scores = DOMAIN before \cup {n}
    /\ scores[n].attempts = RecordOf(before, n).attempts + 1
    /\ scores[n].success = RecordOf(before, n).success + (IF success THEN 1 ELSE 0)
    /\ \A m \in DOMAIN before \ {n} : scores[m] = before[m]

\* C23: record_outcome(name, success) adds exactly 1 to attempts of name,
\* adds 1 to successes of name if success and 0 otherwise, starts from the
\* record (0, 0) for an unseen name, and leaves every other record as it was.
C23_RecordOutcomeEffect ==
    \A t \in Threads :
        (inv[t].op = "record" /\ pc[t] = "done")
        => OneOutcomeAdded(inv[t].scoresBefore, inv[t].chosen, inv[t].outcome.applied)

C23_Witness ==
    \E t \in Threads :
        /\ inv[t].op = "record" /\ pc[t] = "done"
        /\ inv[t].chosen = "a" /\ inv[t].outcome.applied
        /\ "a" \in DOMAIN inv[t].scoresBefore
        /\ inv[t].scoresBefore["a"] = [success |-> 1, attempts |-> 2]
        /\ scores["a"] = [success |-> 2, attempts |-> 3]
        /\ "b" \in DOMAIN scores /\ scores["b"].attempts > 0

\* C24: a heal that selected strategy s and has returned added exactly 1 to
\* attempts of s, and 1 to successes of s exactly when the outcome is
\* applied; a dry-run heal and a heal of a name outside the catalog added one
\* attempt and no success; no other name's score changed.
C24_HealLearnsOnce ==
    \A t \in Threads :
        (HealSelected(t) /\ pc[t] = "done")
        => /\ OneOutcomeAdded(inv[t].scoresBefore, inv[t].chosen,
                              inv[t].result.outcome.applied)
           /\ (inv[t].dry_run \/ ~LibHas(inv[t].chosen))
              => /\ ~inv[t].result.outcome.applied
                 /\ scores[inv[t].chosen].success
                      = RecordOf(inv[t].scoresBefore, inv[t].chosen).success
           /\ (~inv[t].dry_run /\ LibHas(inv[t].chosen))
              => inv[t].result.outcome.applied

C24_Witness ==
    \E t \in Threads :
        /\ HealSelected(t) /\ pc[t] = "done"
        /\ inv[t].chosen = "restart_unhealthy" /\ inv[t].dry_run
        /\ inv[t].scoresBefore = ("restart_unhealthy" :> [success |-> 1, attempts |-> 1])
        /\ scores["restart_unhealthy"] = [success |-> 1, attempts |-> 2]

\* the container ids the calls of a run of execute were made on, in order and
\* with repetitions removed
RECURSIVE Targets(_, _)
Targets(calls, i) ==
    IF i > Len(calls) THEN <<>>
    ELSE LET rest == Targets(calls, i + 1)
         IN  IF calls[i].op = "get" THEN <<calls[i].id>> \o rest ELSE rest

\* thread t has just run a non-dry-run execute of a container-targeting
\* catalog strategy with the container integration available
DockerRun(t) ==
    /\ pc[t] = "persist" /\ ~inv[t].dry_run /\ dockerAvailable
    /\ LibHas(inv[t].chosen)
    /\ IsDockerType(LibGet(inv[t].chosen).actions[1].type)

\* C25 as stated: the action is attempted against every container id of
\* context.containers, in list order, also after a failure on one of them,
\* and the failure is recorded in the result of the action.
C25_EveryContainerTried ==
    \A t \in Threads :
        DockerRun(t)
        => /\ Targets(inv[t].calls, 1) = inv[t].containers
           /\ inv[t].raised # {} <=> "error" \in DOMAIN inv[t].outcome.actions[1]

\* C25, amended: the action is attempted against the container ids of
\* context.containers in list order until a call fails; the failure is
\* recorded in the result of the action and ends the attempts of this action
\* (the remaining container ids are not attempted); without a failure every
\* container id is attempted and the result names them as targets.
C25_ContainersUntilFailure ==
    \A t \in Threads :
        DockerRun(t)
        => LET typ == LibGet(inv[t].chosen).actions[1].type
               all == TryCalls(typ, inv[t].containers)
               res == inv[t].outcome.actions[1]
           IN  /\ Len(inv[t].calls) <= Len(all)
               /\ inv[t].calls = SubSeq(all, 1, Len(inv[t].calls))
               /\ inv[t].raised = {}
                  => /\ inv[t].calls = all
                     /\ res = [type |-> typ, targets |-> inv[t].containers]
                     /\ Targets(inv[t].calls, 1) = inv[t].containers
               /\ inv[t].raised # {}
                  => /\ res = [type |-> typ, error |-> "raised"]
                     /\ inv[t].failAt \in 1..Len(all)
                     /\ inv[t].calls = SubSeq(all, 1, inv[t].failAt)
               /\ inv[t].outcome.applied

C25_Witness ==
    \E t \in Threads :
        /\ DockerRun(t) /\ inv[t].chosen = "restart_unhealthy"
        /\ inv[t].containers = <<"c1", "c2">>
        /\ inv[t].raised = {1} /\ inv[t].failAt = 3
        /\ inv[t].calls = <<[op |-> "from_env", id |-> None], [op |-> "get", id |-> "c1"],
                             [op |-> "restart", id |-> "c1"]>>

\* a window of one value, or of equal values
Flat(values) == values # <<>> /\ \A i \in 1..Len(values) : values[i] = values[1]

\* no anomaly is reported for a metric of the dict whose baseline has
\* standard deviation 0
FlatQuiet(metrics, anomalies) ==
    \A i \in 1..Len(metrics) :
        LET k == metrics[i][1]
        IN  (k \in DOMAIN baselines /\ baselines[k][2] = 0)
            => AnomaliesOf(anomalies, k) = {}

C26_ZeroDeviationQuiet ==
    /\ Called("update_baseline") /\ Flat(called.values)
       => baselines[called.metric] = <<called.values[1], 0>>
    /\ Called("detect") => FlatQuiet(called.metrics, called.result)
    /\ \A t \in Threads :
          (inv[t].op = "analyze" /\ pc[t] \in {"publish", "audit", "done"})
          => FlatQuiet(inv[t].metrics, inv[t].payload.anomalies)

\* the standard deviation of a baseline stops being 0 only in an
\* update_baseline call for the metric, with values that are not all equal
C26_DeviationStep ==
    \A k \in DOMAIN baselines :
        /\ k \in DOMAIN baselines'
        /\ (baselines[k][2] = 0 /\ baselines'[k][2] # 0)
           => /\ called' # NoRecord /\ called'.op = "update_baseline"
              /\ called'.metric = k /\ ~Flat(called'.values)

\* C26: a metric whose baseline has standard deviation 0 (update_baseline with
\* a single value or with equal values) is never reported as an anomaly by
\* detect, whatever its value, until a later update_baseline gives it a
\* non-zero standard deviation.
C26_ZeroDeviation == []C26_ZeroDeviationQuiet /\ [][C26_DeviationStep]_vars

C26_Witness ==
    /\ Called("detect")
    /\ called.metrics = <<<<"error_rate", 9500>>>>
    /\ "error_rate" \in DOMAIN baselines /\ baselines["error_rate"] = <<1200, 0>>
    /\ called.result = <<>>

\* the diagnoses diagnose produces for the anomaly lists and contexts above
DiagnoseOutputs ==
    {Diagnose(a, c) : a \in CraftedAnomalies, c \in DiagnoseContexts}

\* C27: every strategy name a rule of diagnose recommends is an entry of the
\* catalog, so a heal that follows a diagnosis produced by diagnose, without
\* override, never ends with the outcome reason "unknown_strategy".
C27_RecommendedInCatalog ==
    \A t \in Threads :
        (/\ inv[t].op = "heal" /\ pc[t] = "persist"
         /\ ~Truthy(inv[t].strategy)
         /\ inv[t].diag \in DiagnoseOutputs)
        => /\ \A n \in Range(inv[t].diag.recommended_strategies) : LibHas(n)
           /\ inv[t].outcome # UnknownStrategyOutcome

\* C28: a non-dry-run execute of a catalog strategy returns applied = true
\* whatever the results of its actions, errors included; so every heal that
\* ran such an execute has, when it ends, recorded one attempt and one success
\* for the chosen strategy.
C28_ExecutionCountsAsSuccess ==
    \A t \in Threads :
        (/\ inv[t].op = "heal" /\ "execute" \in Range(inv[t].steps)
         /\ ~inv[t].dry_run /\ LibHas(inv[t].chosen))
        => /\ inv[t].outcome.applied
           /\ pc[t] \in {"done", "raised"}
              => OneOutcomeAdded(inv[t].scoresBefore, inv[t].chosen, TRUE)

(***************************************************************************)
(* detect running while update_baseline is called from another thread      *)
(***************************************************************************)
\* the metrics dicts of the detect that runs next to the updates
RacingMetrics ==
    {<<<<"error_rate", v>>>> : v \in {1000, 1300, 9500}}
    \cup {<<<<"error_rate", 1300>>, <<"cpu_load", 4000>>>>,
          <<<<"error_rate", 1000>>, <<"error_rate", 1300>>>>}

\* detect, line 63: self._baselines.get(k, (v, max(1e-6, abs(v)*0.05))), one
\* lookup that returns the stored tuple or the default
BaselineFor(bl, k, v) == IF k \in DOMAIN bl THEN bl[k] ELSE <<v, ColdSd(v)>>

\* detect, lines 60-61: the call with its metrics dict
DetectBegin(t) ==
    /\ pc[t] = "idle"
    /\ t \in Active(mode)
    /\ started < MaxOps(mode)
    /\ started' = started + 1
    /\ \E metrics \in RacingMetrics :
        inv' = [inv EXCEPT ![t] = [IdleLocals EXCEPT !.op = "detect",
                                      !.metrics = metrics, !.tmp = 1]]
    /\ pc' = [pc EXCEPT ![t] = IF inv'[t].metrics = <<>> THEN "done" ELSE "det_get"]
    /\ UNCHANGED <<scores, baselines, db, dockerAvailable, mode, recorded, bestResult, called, stats>>

\* detect, line 63: mu, sd = the pair looked up for the item
DetectGet(t) ==
    /\ pc[t] = "det_get"
    /\ LET item == inv[t].metrics[inv[t].tmp]
           pair == BaselineFor(baselines, item[1], item[2])
       IN  inv' = [inv EXCEPT ![t].base = pair,
                              ![t].used = Append(@, [metric |-> item[1],
                                                     value |-> item[2], pair |-> pair])]
    /\ pc' = [pc EXCEPT ![t] = "det_score"]
    /\ UNCHANGED <<scores, baselines, db, dockerAvailable, started, mode, recorded, bestResult, called, stats>>

\* detect, lines 64-72: the item is scored against mu and sd; then the next
\* item, or the return of line 73
DetectScore(t) ==
    /\ pc[t] = "det_score"
    /\ LET item == inv[t].metrics[inv[t].tmp]
           last == inv[t].tmp = Len(inv[t].metrics)
           out  == inv[t].findings \o DetectOne((item[1] :> inv[t].base), item[1], item[2])
       IN  /\ inv' = [inv EXCEPT ![t].findings = out, ![t].base = NoRecord,
                                  ![t].tmp = IF last THEN 0 ELSE @ + 1,
                                  ![t].result = IF last THEN [anomalies |-> out] ELSE @]
           /\ pc' = [pc EXCEPT ![t] = IF last THEN "done" ELSE "det_get"]
    /\ UNCHANGED <<scores, baselines, db, dockerAvailable, started, mode, recorded, bestResult, called, stats>>

\* update_baseline called from another thread, lines 54-58: mu and sd are
\* locals of the call, line 58 is its one store to the map
UpdateBaselineRacing ==
    /\ started < MaxOps(mode)
    /\ started' = started + 1
    /\ \E metric \in BaselineMetrics, values \in BaselineWindows :
        baselines' = UpdateBaselineMap(baselines, metric, values)
    /\ UNCHANGED <<scores, db, dockerAvailable, pc, inv, mode, recorded, bestResult, called, stats>>

InitRacing == InitService /\ mode = "race"

NextRacing ==
    \/ \E t \in Threads : DetectBegin(t)
    \/ \E t \in Threads : DetectGet(t)
    \/ \E t \in Threads : DetectScore(t)
    \/ \E t \in Threads : Return(t)
    \/ UpdateBaselineRacing

\* a detect in steps, with baselines pushed between its steps
SpecRacing == InitRacing /\ [][NextRacing]_vars

\* the pairs update_baseline writes for the windows of the model
WrittenPairs ==
    {UpdateBaselineMap(<<>>, "m", w)["m"] : w \in BaselineWindows \ {<<>>}}

\* the report of the detect of thread t so far, recomputed from the pairs it
\* looked up
RECURSIVE ScoredWith(_, _)
ScoredWith(used, i) ==
    IF i > Len(used) THEN <<>>
    ELSE DetectOne((used[i].metric :> used[i].pair), used[i].metric, used[i].value)
         \o ScoredWith(used, i + 1)

RECURSIVE SumAttempts(_, _)
SumAttempts(sc, S) ==
    IF S = {} THEN 0
    ELSE LET n == CHOOSE x \in S : TRUE
         IN  sc[n].attempts + SumAttempts(sc, S \ {n})

\* C30: with scores changed only through heal, in every state the sum of
\* attempts over all strategy names is at most the number of persisted
\* HealingAttempt records, and the two are equal whenever no heal invocation
\* is in progress.
C30_PersistenceAndLearningInStep ==
    /\ SumAttempts(scores, DOMAIN scores) <= Len(db)
    /\ (\A t \in Threads : inv[t].op # "heal")
       => SumAttempts(scores, DOMAIN scores) = Len(db)

====
